---- MODULE Spec2Model ----
(***************************************************************************)
(* The sequential text-to-speech playback pipeline of InvestmentPredictor  *)
(* (src/App.tsx, lines 40-276).                                            *)
(*                                                                         *)
(* The component runs on one event loop: every handler and every           *)
(* continuation of an await runs to its next await without interruption.   *)
(* Each action below is one such run.  The awaits of playNextInQueue       *)
(* (getTextToSpeechAudio, context.resume) are the places where other       *)
(* handlers can interleave; a pending playNextInQueue call is an entry of  *)
(* `calls` whose pc names the await it is suspended at.                    *)
(*                                                                         *)
(* Modelling decisions:                                                    *)
(*  - a text segment is its index in textChunks (1 = the overall summary); *)
(*    every chunk is a template with literal text, so `!text` (line 62)    *)
(*    is never true;                                                       *)
(*  - a playNextInQueue call is named by the session whose queue it took   *)
(*    its segment from and by that segment; the source node it creates     *)
(*    carries the same name;                                               *)
(*  - handlers read the committed React state (isSpeaking, prediction,     *)
(*    language): React re-renders before the next user event;              *)
(*  - playNextInQueue is memoised on [language] and its onended callback   *)
(*    calls the same closure, so a chain of calls keeps the language that  *)
(*    was selected when handleSpeak started it;                            *)
(*  - AudioContext.suspend()/resume() take effect on context.state at the  *)
(*    call; the await of resume() is still a suspension point;             *)
(*  - a started source fires `ended` only while the context is running;    *)
(*  - decode and decodeAudioData are pure transformations: no handler runs *)
(*    between them and source.start();                                     *)
(*  - a call that has settled and a source that can no longer fire        *)
(*    `ended` are unreachable objects; their records are kept while their  *)
(*    session is the current one and forgotten after that.                 *)
(*                                                                         *)
(* getTextToSpeechAudio, FinanceAdvisor and ChatBot are modelled next to   *)
(* it, each with its own variables and its own specification (SpecTts,     *)
(* SpecAdvisor, SpecChat); a specification leaves the variables of the     *)
(* other parts at their initial values.                                    *)
(***************************************************************************)
EXTENDS Naturals, Sequences, FiniteSets

\* Bounds of the model.
MaxSegments == 2      \* largest textChunks list (1 summary + items)
MaxUserEvents == 5    \* user events: clicks, submits, selections, unmount

Sessions == 1..MaxUserEvents
Segments == 1..MaxSegments
Languages == {"English", "Hindi"}

NoError == "null"
ErrEmptyPortfolio == "Portfolio cannot be empty."
ErrFetch ==
  "An error occurred while fetching the prediction. Please try again."
ErrAudio == "Failed to generate or play audio for a segment."

VARIABLES
  prediction,            \* 0 = null, else the length of its textChunks
  isLoading,
  error,
  language,
  isSpeaking,
  audioContextState,     \* audioContextRef: "none", "running", "suspended"
  audioSourceRef,        \* NoSource = null, else <<session, segment>>
  audioQueueRef,         \* sequence of segment indices
  isStoppedManuallyRef,
  mounted,
  calls,                 \* calls[k][g]: the playNextInQueue call for segment
                         \* g of session k
  sources,               \* sources[k][g]: the AudioBufferSourceNode of that
                         \* call
  session,               \* number of sessions started by handleSpeak
  userEvents,            \* number of user events handled so far
  \* history, read by the properties only
  cancelled,             \* calls that were awaiting when stopPlayback ran
  sessStopped,           \* stopPlayback ran since the current session began
  errorCount,            \* setError(ErrAudio) calls since the session began
  stopRun,               \* stopPlayback calls in immediate succession (0..2)
  lastHeld               \* the node the first stopPlayback of the run
                         \* held, as it left it; NoNode if it held none

\* getTextToSpeechAudio (src/components/FinanceAdvisor.tsx, lines 372-395),
\* taken on its own.
VARIABLES
  ttsCall,               \* the request and what the remote call does with it
  ttsResult              \* how the returned promise settled; NotSettled before

refs == <<audioContextState, audioSourceRef, audioQueueRef,
          isStoppedManuallyRef>>
\* FinanceAdvisor (src/components/FinanceAdvisor.tsx, lines 7-216): one
\* synthesis call per speak request, for the whole advice text.
VARIABLES
  faAdvice,              \* advice # null
  faIsLoading,
  faError,
  faIsSpeaking,
  faAudioContextState,   \* audioContextRef: "none", "running", "suspended"
  faAudioSourceRef,      \* 0 = null, else the number of the source
  faCalls,               \* faCalls[i]: where the i-th playing handleSpeak is
  faNodes,               \* faNodes[i]: the source node the i-th call created
  faSpeaks,              \* number of handleSpeak calls that requested audio
  faEvents               \* number of user events handled so far

\* ChatBot (src/components/ChatBot.tsx, lines 6-39).
VARIABLES
  chMessages,            \* messages: sequence of [sender, text]
  chInput,               \* input: a sequence of characters
  chIsLoading,
  chInFlight,            \* calls of getChatResponse that have not settled
  chSends                \* number of requests sent so far

predictorVars ==
  <<prediction, isLoading, error, language, isSpeaking, audioContextState,
    audioSourceRef, audioQueueRef, isStoppedManuallyRef, mounted, calls,
    sources, session, userEvents, cancelled, sessStopped,
    errorCount, stopRun, lastHeld>>
ttsVars == <<ttsCall, ttsResult>>
advisorVars ==
  <<faAdvice, faIsLoading, faError, faIsSpeaking, faAudioContextState,
    faAudioSourceRef, faCalls, faNodes, faSpeaks, faEvents>>
chatVars == <<chMessages, chInput, chIsLoading, chInFlight, chSends>>
\* What the handlers of InvestmentPredictor cannot touch.
outsidePredictor == <<ttsVars, advisorVars, chatVars>>
\* What a call of getTextToSpeechAudio taken on its own cannot touch.
outsideTts == <<predictorVars, advisorVars, chatVars>>
\* What the handlers of FinanceAdvisor cannot touch.
outsideAdvisor == <<predictorVars, ttsVars, chatVars>>
\* What the handlers of ChatBot cannot touch.
outsideChat == <<predictorVars, ttsVars, advisorVars>>
vars == <<predictorVars, outsidePredictor>>

NoSource == <<0, 0>>
NoCall == [pc |-> "none", lang |-> "none", times |-> 0]
NoNode == [state |-> "none", onended |-> FALSE, connected |-> FALSE]

Awaiting == {"synth", "resume"}
Failed == {"synthFailed", "audioFailed"}

\* textChunks of handleSpeak: the summary followed by one chunk per item.
textChunks(pred) == [i \in 1..pred |-> i]

\* InvestmentPredictor after its first render.
PredictorInit ==
  /\ prediction = 0
  /\ isLoading = FALSE
  /\ error = NoError
  /\ language = "English"
  /\ isSpeaking = FALSE
  /\ audioContextState = "none"
  /\ audioSourceRef = NoSource
  /\ audioQueueRef = <<>>
  /\ isStoppedManuallyRef = FALSE
  /\ mounted = TRUE
  /\ calls = [k \in Sessions |-> [g \in Segments |-> NoCall]]
  /\ sources = [k \in Sessions |-> [g \in Segments |-> NoNode]]
  /\ session = 0
  /\ userEvents = 0
  /\ cancelled = {}
  /\ sessStopped = FALSE
  /\ errorCount = 0
  /\ stopRun = 0
  /\ lastHeld = NoNode

\* The length of the longest audio payload of a synthesis response.
MaxPayloadLen == 3

ErrSynthesis == "Failed to generate speech from the AI."
ErrNoAudio == "No audio data received from API."

Base64Chars == {"A", "Q", "="}
Payloads == UNION {[1..n -> Base64Chars] : n \in 0..MaxPayloadLen}

\* The links of response.candidates?.[0]?.content?.parts?.[0]?.inlineData
\* ?.data (line 386): candidates, [0], content, parts, [0], inlineData, data.
ChainLen == 7

\* What ai.models.generateContent does: it rejects, or it resolves with a
\* response in which the first `chain` links are defined; with the whole
\* chain defined, data is the string found at its end.
ApiOutcomes ==
  [rejects : {TRUE}, chain : {0}, data : {<<>>}]
    \cup [rejects : {FALSE}, chain : 0..(ChainLen - 1), data : {<<>>}]
    \cup [rejects : {FALSE}, chain : {ChainLen}, data : Payloads]

TtsCalls == [text : Segments, language : Languages, outcome : ApiOutcomes]

NotSettled == [status |-> "pending", value |-> <<>>, message |-> ""]
Returned(v) == [status |-> "fulfilled", value |-> v, message |-> ""]
Thrown(msg) == [status |-> "rejected", value |-> <<>>, message |-> msg]

\* getTextToSpeechAudio without lines 387-389: whatever is found at the end
\* of the chain is returned, undefined and "" included.
getTextToSpeechAudioUnchecked(outcome) ==
  IF outcome.rejects THEN Thrown(ErrSynthesis)
  ELSE Returned(outcome.data)

\* getTextToSpeechAudio: the try body (lines 374-390) throws when the remote
\* call rejects or `!base64Audio` holds, and the catch (lines 391-394)
\* replaces whatever was thrown by one error.
getTextToSpeechAudio(outcome) ==
  LET body == IF outcome.rejects THEN Thrown("remote")
              ELSE IF outcome.chain < ChainLen \/ outcome.data = <<>>
                   THEN Thrown(ErrNoAudio)
              ELSE Returned(outcome.data)
  IN IF body.status = "rejected" THEN Thrown(ErrSynthesis) ELSE body

\* No call of getTextToSpeechAudio is looked at on its own.
TtsUnused ==
  /\ ttsCall = [text |-> 1, language |-> "English",
                outcome |-> [rejects |-> TRUE, chain |-> 0, data |-> <<>>]]
  /\ ttsResult = NotSettled

TtsInit ==
  /\ ttsCall \in TtsCalls
  /\ ttsResult = NotSettled

\* The remote call settles and getTextToSpeechAudio runs to its end.
TtsSettle ==
  /\ ttsResult = NotSettled
  /\ ttsResult' = getTextToSpeechAudio(ttsCall.outcome)
  /\ UNCHANGED <<ttsCall, outsideTts>>

\* The next call of getTextToSpeechAudio.
TtsRequest ==
  /\ ttsResult # NotSettled
  /\ ttsCall' \in TtsCalls
  /\ ttsResult' = NotSettled
  /\ UNCHANGED outsideTts

\* Bound of the FinanceAdvisor model: user events (clicks and submits).
MaxAdvisorEvents == 6

FaCalls == 1..MaxAdvisorEvents
ErrAdviceFetch ==
  "An error occurred while fetching financial advice. Please try again."
ErrAdviceAudio == "Failed to generate or play audio."

\* FinanceAdvisor after its first render.
AdvisorInit ==
  /\ faAdvice = FALSE
  /\ faIsLoading = FALSE
  /\ faError = NoError
  /\ faIsSpeaking = FALSE
  /\ faAudioContextState = "none"
  /\ faAudioSourceRef = 0
  /\ faCalls = [i \in FaCalls |-> "none"]
  /\ faNodes = [i \in FaCalls |-> "none"]
  /\ faSpeaks = 0
  /\ faEvents = 0

\* stopPlayback of FinanceAdvisor (lines 21-31): the held source is stopped
\* with its onended callback attached.
FaStopPlayback ==
  /\ faNodes' = IF faAudioSourceRef # 0
                THEN [faNodes EXCEPT ![faAudioSourceRef] = "stopped"]
                ELSE faNodes
  /\ faAudioSourceRef' = 0
  /\ faAudioContextState' = IF faAudioContextState = "running"
                            THEN "suspended" ELSE faAudioContextState
  /\ faIsSpeaking' = FALSE

\* handleSpeak of FinanceAdvisor up to its first await (lines 33-44).
FaHandleSpeak ==
  /\ UNCHANGED outsideAdvisor
  /\ faAdvice
  /\ faEvents < MaxAdvisorEvents
  /\ faEvents' = faEvents + 1
  /\ IF faIsSpeaking
     THEN /\ FaStopPlayback
          /\ UNCHANGED <<faAdvice, faIsLoading, faError, faCalls, faSpeaks>>
     ELSE /\ faIsSpeaking' = TRUE
          /\ faError' = NoError
          /\ faSpeaks' = faSpeaks + 1
          /\ faCalls' = [faCalls EXCEPT ![faSpeaks + 1] = "synth"]
          /\ UNCHANGED <<faAdvice, faIsLoading, faAudioContextState,
                         faAudioSourceRef, faNodes>>

\* handleSubmit of FinanceAdvisor up to its await (lines 78-87); the submit
\* button is disabled while isLoading.
FaHandleSubmit ==
  /\ UNCHANGED outsideAdvisor
  /\ ~faIsLoading
  /\ faEvents < MaxAdvisorEvents
  /\ faEvents' = faEvents + 1
  /\ faIsLoading' = TRUE
  /\ faError' = NoError
  /\ faAdvice' = FALSE
  /\ FaStopPlayback
  /\ UNCHANGED <<faCalls, faSpeaks>>

\* getFinancialAdvice resolved (lines 87-89, 93-94).
FaFetchResolve ==
  /\ UNCHANGED outsideAdvisor
  /\ faIsLoading
  /\ faAdvice' = TRUE
  /\ faIsLoading' = FALSE
  /\ UNCHANGED <<faError, faIsSpeaking, faAudioContextState,
                 faAudioSourceRef, faCalls, faNodes, faSpeaks, faEvents>>

\* getFinancialAdvice rejected (lines 90-94).
FaFetchReject ==
  /\ UNCHANGED outsideAdvisor
  /\ faIsLoading
  /\ faError' = ErrAdviceFetch
  /\ faIsLoading' = FALSE
  /\ UNCHANGED <<faAdvice, faIsSpeaking, faAudioContextState,
                 faAudioSourceRef, faCalls, faNodes, faSpeaks, faEvents>>

\* Lines 55-70 for call i: the source still held is stopped, a new source is
\* created, started and kept in audioSourceRef.
FaStart(i) ==
  /\ faNodes' = [(IF faAudioSourceRef # 0
                  THEN [faNodes EXCEPT ![faAudioSourceRef] = "stopped"]
                  ELSE faNodes) EXCEPT ![i] = "playing"]
  /\ faAudioSourceRef' = i
  /\ faCalls' = [faCalls EXCEPT ![i] = "started"]

\* The catch block of handleSpeak (lines 72-75).
FaCatch(i) ==
  /\ faCalls' = [faCalls EXCEPT ![i] = "failed"]
  /\ faError' = ErrAdviceAudio
  /\ faIsSpeaking' = FALSE
  /\ UNCHANGED <<faAdvice, faIsLoading, faAudioSourceRef, faNodes, faSpeaks,
                 faEvents>>

\* context.state as line 51 reads it; a context created at line 47 starts
\* suspended or running.
FaContextStates ==
  IF faAudioContextState = "none" THEN {"running", "suspended"}
  ELSE {faAudioContextState}

\* getTextToSpeechAudio resolved: handleSpeak runs from line 46 to the await
\* of context.resume(), or to its end when the context is running.
FaSynthResolve(i) ==
  /\ UNCHANGED outsideAdvisor
  /\ faCalls[i] = "synth"
  /\ faAudioContextState' = "running"
  /\ \E state \in FaContextStates :
       IF state = "suspended"
       THEN /\ faCalls' = [faCalls EXCEPT ![i] = "resume"]
            /\ UNCHANGED <<faNodes, faAudioSourceRef>>
       ELSE FaStart(i)
  /\ UNCHANGED <<faAdvice, faIsLoading, faError, faIsSpeaking, faSpeaks,
                 faEvents>>

\* getTextToSpeechAudio rejected.
FaSynthReject(i) ==
  /\ UNCHANGED outsideAdvisor
  /\ faCalls[i] = "synth"
  /\ FaCatch(i)
  /\ UNCHANGED faAudioContextState

\* context.resume() resolved: lines 55-70.
FaResumeDone(i) ==
  /\ UNCHANGED outsideAdvisor
  /\ faCalls[i] = "resume"
  /\ FaStart(i)
  /\ UNCHANGED <<faAdvice, faIsLoading, faError, faIsSpeaking,
                 faAudioContextState, faSpeaks, faEvents>>

\* decode, decodeAudioData or the output device threw.
FaAudioFail(i) ==
  /\ UNCHANGED outsideAdvisor
  /\ \/ /\ faCalls[i] = "synth"
        /\ "running" \in FaContextStates
        /\ faAudioContextState' = "running"
     \/ /\ faCalls[i] = "resume"
        /\ UNCHANGED faAudioContextState
  /\ FaCatch(i)

\* The `ended` event of source i (lines 65-68): its buffer played to the
\* end, or it was stopped; the event is delivered while the context runs.
FaSourceEnded(i) ==
  /\ UNCHANGED outsideAdvisor
  /\ faNodes[i] \in {"playing", "stopped"}
  /\ faAudioContextState = "running"
  /\ faNodes' = [faNodes EXCEPT ![i] = "ended"]
  /\ faIsSpeaking' = FALSE
  /\ faAudioSourceRef' = 0
  /\ UNCHANGED <<faAdvice, faIsLoading, faError, faAudioContextState,
                 faCalls, faSpeaks, faEvents>>

AdvisorNext ==
  \/ FaHandleSpeak
  \/ FaHandleSubmit
  \/ FaFetchResolve
  \/ FaFetchReject
  \/ \E i \in FaCalls : FaSynthResolve(i)
  \/ \E i \in FaCalls : FaSynthReject(i)
  \/ \E i \in FaCalls : FaResumeDone(i)
  \/ \E i \in FaCalls : FaAudioFail(i)
  \/ \E i \in FaCalls : FaSourceEnded(i)

\* Bounds of the ChatBot model.
MaxInputLen == 2      \* longest text typed into the input
MaxChatSends == 2     \* requests sent to getChatResponse

InputChars == {" ", "a"}
Inputs == UNION {[1..n -> InputChars] : n \in 0..MaxInputLen}
Replies == {"reply"}
ChatGreeting == "Hello! How can I help you today?"
ChatApology == "Sorry, I'm having trouble connecting. Please try again."

\* String.prototype.trim on a sequence of characters.
RECURSIVE trimStart(_)
trimStart(str) ==
  IF str # <<>> /\ Head(str) = " " THEN trimStart(Tail(str)) ELSE str

RECURSIVE trimEnd(_)
trimEnd(str) ==
  IF str # <<>> /\ str[Len(str)] = " "
  THEN trimEnd(SubSeq(str, 1, Len(str) - 1))
  ELSE str

trim(str) == trimEnd(trimStart(str))

\* ChatBot after its first render (lines 7-12).
ChatInit ==
  /\ chMessages = <<[sender |-> "bot", text |-> ChatGreeting]>>
  /\ chInput = <<>>
  /\ chIsLoading = FALSE
  /\ chInFlight = 0
  /\ chSends = 0

\* handleSend with `input === ''` for `input.trim() === ''` at line 22.
handleSendNoTrim(input, loading, messages) ==
  IF input = <<>> \/ loading
  THEN [messages |-> messages, input |-> input, isLoading |-> loading,
        request |-> FALSE]
  ELSE [messages |-> Append(messages, [sender |-> "user", text |-> input]),
        input |-> <<>>, isLoading |-> TRUE, request |-> TRUE]

\* handleSend up to its await (lines 21-30): what it leaves in messages,
\* input and isLoading, and whether it called getChatResponse.
handleSend(input, loading, messages) ==
  IF trim(input) = <<>> \/ loading
  THEN [messages |-> messages, input |-> input, isLoading |-> loading,
        request |-> FALSE]
  ELSE [messages |-> Append(messages, [sender |-> "user", text |-> input]),
        input |-> <<>>, isLoading |-> TRUE, request |-> TRUE]

\* onChange of the input, which is disabled while isLoading.
ChSetInput ==
  /\ UNCHANGED outsideChat
  /\ ~chIsLoading
  /\ \E v \in Inputs \ {chInput} : chInput' = v
  /\ UNCHANGED <<chMessages, chIsLoading, chInFlight, chSends>>

\* The send button or the Enter key.
ChHandleSend ==
  /\ UNCHANGED outsideChat
  /\ chSends < MaxChatSends
  /\ LET sent == handleSend(chInput, chIsLoading, chMessages)
     IN /\ chMessages' = sent.messages
        /\ chInput' = sent.input
        /\ chIsLoading' = sent.isLoading
        /\ chInFlight' = chInFlight + (IF sent.request THEN 1 ELSE 0)
        /\ chSends' = chSends + (IF sent.request THEN 1 ELSE 0)

\* getChatResponse resolved (lines 30-32, 36-37).
ChReply ==
  /\ UNCHANGED outsideChat
  /\ chInFlight > 0
  /\ \E reply \in Replies :
       chMessages' = Append(chMessages, [sender |-> "bot", text |-> reply])
  /\ chIsLoading' = FALSE
  /\ chInFlight' = chInFlight - 1
  /\ UNCHANGED <<chInput, chSends>>

\* getChatResponse rejected (lines 33-37).
ChFail ==
  /\ UNCHANGED outsideChat
  /\ chInFlight > 0
  /\ chMessages' =
       Append(chMessages, [sender |-> "bot", text |-> ChatApology])
  /\ chIsLoading' = FALSE
  /\ chInFlight' = chInFlight - 1
  /\ UNCHANGED <<chInput, chSends>>

ChatNext == ChSetInput \/ ChHandleSend \/ ChReply \/ ChFail

Init ==
  /\ PredictorInit
  /\ TtsUnused
  /\ AdvisorInit
  /\ ChatInit

\* ReleaseSource without line 99: the onended callback stays attached.
ReleaseSourceKeepsCallback(src) ==
  [src EXCEPT !.state = "stopped", !.connected = FALSE]

\* The source node after stopPlayback has released it (lines 99-101).
ReleaseSource(src) ==
  [src EXCEPT !.onended = FALSE, !.state = "stopped", !.connected = FALSE]

\* stopPlayback as FinanceAdvisor has it: the source is halted with its
\* callback attached, the queue and the manual-stop flag are left alone.
stopPlaybackHaltOnly ==
  [isStoppedManuallyRef |-> isStoppedManuallyRef,
   audioQueueRef |-> audioQueueRef,
   sources |-> IF audioSourceRef # NoSource
               THEN [sources EXCEPT ![audioSourceRef[1]][audioSourceRef[2]] =
                                      ReleaseSourceKeepsCallback(@)]
               ELSE sources,
   audioSourceRef |-> NoSource,
   audioContextState |-> IF audioContextState = "running" THEN "suspended"
                         ELSE audioContextState,
   isSpeaking |-> FALSE]

\* stopPlayback that flips isSpeaking, as the Speak/Stop button does.
stopPlaybackToggle ==
  [isStoppedManuallyRef |-> TRUE,
   audioQueueRef |-> <<>>,
   sources |-> IF audioSourceRef # NoSource
               THEN [sources EXCEPT ![audioSourceRef[1]][audioSourceRef[2]] =
                                      ReleaseSource(@)]
               ELSE sources,
   audioSourceRef |-> NoSource,
   audioContextState |-> IF audioContextState = "running" THEN "suspended"
                         ELSE audioContextState,
   isSpeaking |-> ~isSpeaking]

\* stopPlayback: what it leaves in the refs, the source nodes and
\* isSpeaking.
stopPlayback ==
  [isStoppedManuallyRef |-> TRUE,
   audioQueueRef |-> <<>>,
   sources |-> IF audioSourceRef # NoSource
               THEN [sources EXCEPT ![audioSourceRef[1]][audioSourceRef[2]] =
                                      ReleaseSource(@)]
               ELSE sources,
   audioSourceRef |-> NoSource,
   audioContextState |-> IF audioContextState = "running" THEN "suspended"
                         ELSE audioContextState,
   isSpeaking |-> FALSE]

\* playNextInQueue with pop() for shift(): the queue is consumed from its
\* tail.
playNextInQueueFromTail(lang, sess, queue, stopped, speaking, cs) ==
  IF stopped \/ Len(queue) = 0
  THEN [isSpeaking |-> FALSE, isStoppedManuallyRef |-> FALSE,
        audioQueueRef |-> queue, calls |-> cs]
  ELSE [isSpeaking |-> speaking, isStoppedManuallyRef |-> stopped,
        audioQueueRef |-> SubSeq(queue, 1, Len(queue) - 1),
        calls |-> [cs EXCEPT ![sess][queue[Len(queue)]] =
                     [pc |-> "synth", lang |-> lang, times |-> @.times + 1]]]

\* playNextInQueue without line 56: the end of the queue or a manual stop
\* leaves isSpeaking as it is.
playNextInQueueNoIdle(lang, sess, queue, stopped, speaking, cs) ==
  IF stopped \/ Len(queue) = 0
  THEN [isSpeaking |-> speaking, isStoppedManuallyRef |-> FALSE,
        audioQueueRef |-> queue, calls |-> cs]
  ELSE [isSpeaking |-> speaking, isStoppedManuallyRef |-> stopped,
        audioQueueRef |-> Tail(queue),
        calls |-> [cs EXCEPT ![sess][Head(queue)] =
                     [pc |-> "synth", lang |-> lang, times |-> @.times + 1]]]

\* playNextInQueue up to its first await, entered with the given values of
\* the queue, the manual-stop flag, isSpeaking and the calls; lang is the
\* closure's language and sess the session that owns the queue.  The result
\* is what it leaves in those four.
playNextInQueue(lang, sess, queue, stopped, speaking, cs) ==
  IF stopped \/ Len(queue) = 0
  THEN [isSpeaking |-> FALSE, isStoppedManuallyRef |-> FALSE,
        audioQueueRef |-> queue, calls |-> cs]
  ELSE [isSpeaking |-> speaking, isStoppedManuallyRef |-> stopped,
        audioQueueRef |-> Tail(queue),
        calls |-> [cs EXCEPT ![sess][Head(queue)] =
                     [pc |-> "synth", lang |-> lang, times |-> @.times + 1]]]

\* A call at an await or a source that can still fire `ended`: the program
\* holds a reference to it.
Live(call, node) ==
  \/ call.pc \in Awaiting
  \/ node.state = "playing"
  \/ node.state = "stopped" /\ node.onended

\* The calls, the sources and the cancelled calls that a step leaves, given
\* the values cs, ss and cn the handler computed and the current session
\* cur: what belongs to an earlier session and is no longer referenced is
\* forgotten.
Remember(cs, ss, cn, cur) ==
  LET keep(k, g) == k >= cur \/ Live(cs[k][g], ss[k][g])
  IN /\ calls' = [k \in Sessions |-> [g \in Segments |->
                    IF keep(k, g) THEN cs[k][g] ELSE NoCall]]
     /\ sources' = [k \in Sessions |-> [g \in Segments |->
                      IF keep(k, g) THEN ss[k][g] ELSE NoNode]]
     /\ cancelled' = {kg \in cn : keep(kg[1], kg[2])}

\* A call of stopPlayback by a handler, with the history it leaves.
Stop ==
  LET stop == stopPlayback
  IN /\ isStoppedManuallyRef' = stop.isStoppedManuallyRef
     /\ audioQueueRef' = stop.audioQueueRef
     /\ audioSourceRef' = stop.audioSourceRef
     /\ audioContextState' = stop.audioContextState
     /\ isSpeaking' = stop.isSpeaking
     /\ Remember(calls, stop.sources,
                 cancelled \cup {kg \in Sessions \X Segments :
                                   calls[kg[1]][kg[2]].pc \in Awaiting},
                 session)
     /\ sessStopped' = TRUE
     /\ stopRun' = IF stopRun = 0 THEN 1 ELSE 2
     /\ lastHeld' = IF stopRun # 0 THEN lastHeld
                    ELSE IF audioSourceRef = NoSource THEN NoNode
                    ELSE stop.sources[audioSourceRef[1]][audioSourceRef[2]]
     /\ errorCount' = errorCount

NoStopHistory ==
  /\ stopRun' = 0
  /\ lastHeld' = NoNode

\* A call of playNextInQueue by a handler that computed the sources ss.
PlayNext(lang, sess, queue, stopped, speaking, ss) ==
  LET next == playNextInQueue(lang, sess, queue, stopped, speaking, calls)
  IN /\ isSpeaking' = next.isSpeaking
     /\ isStoppedManuallyRef' = next.isStoppedManuallyRef
     /\ audioQueueRef' = next.audioQueueRef
     /\ Remember(next.calls, ss, cancelled, sess)

\* handleSpeak without line 119: the manual-stop flag keeps the value that
\* the last stopPlayback or playNextInQueue left in it.
HandleSpeakKeepsFlag ==
  /\ UNCHANGED outsidePredictor
  /\ mounted
  /\ prediction # 0
  /\ userEvents < MaxUserEvents
  /\ userEvents' = userEvents + 1
  /\ IF isSpeaking
     THEN /\ Stop
          /\ UNCHANGED <<prediction, isLoading, error, language, mounted,
                         session>>
     ELSE /\ error' = NoError
          /\ session' = session + 1
          /\ PlayNext(language, session + 1, textChunks(prediction),
                      isStoppedManuallyRef, TRUE, sources)
          /\ sessStopped' = FALSE
          /\ errorCount' = 0
          /\ NoStopHistory
          /\ UNCHANGED <<prediction, isLoading, language, audioContextState,
                         audioSourceRef, mounted>>

\* handleSpeak: the Speak/Stop button.
HandleSpeak ==
  /\ UNCHANGED outsidePredictor
  /\ mounted
  /\ prediction # 0
  /\ userEvents < MaxUserEvents
  /\ userEvents' = userEvents + 1
  /\ IF isSpeaking
     THEN /\ Stop
          /\ UNCHANGED <<prediction, isLoading, error, language, mounted,
                         session>>
     ELSE /\ error' = NoError
          /\ session' = session + 1
          /\ PlayNext(language, session + 1, textChunks(prediction), FALSE,
                      TRUE, sources)
          /\ sessStopped' = FALSE
          /\ errorCount' = 0
          /\ NoStopHistory
          /\ UNCHANGED <<prediction, isLoading, language, audioContextState,
                         audioSourceRef, mounted>>

\* handleSubmit: the form's submit button, disabled while isLoading.
HandleSubmit ==
  /\ UNCHANGED outsidePredictor
  /\ mounted
  /\ ~isLoading
  /\ userEvents < MaxUserEvents
  /\ userEvents' = userEvents + 1
  /\ \E portfolioEmpty \in BOOLEAN :
       IF portfolioEmpty
       THEN /\ error' = ErrEmptyPortfolio
            /\ NoStopHistory
            /\ UNCHANGED <<prediction, isLoading, language, isSpeaking, refs,
                           mounted, calls, sources, session, cancelled,
                           sessStopped, errorCount>>
       ELSE /\ isLoading' = TRUE
            /\ error' = NoError
            /\ prediction' = 0
            /\ Stop
            /\ UNCHANGED <<language, mounted, session>>

\* getInvestmentPrediction resolved: handleSubmit continues after its await.
FetchResolve ==
  /\ UNCHANGED outsidePredictor
  /\ isLoading
  /\ \E pred \in 1..MaxSegments : prediction' = pred
  /\ isLoading' = FALSE
  /\ NoStopHistory
  /\ UNCHANGED <<error, language, isSpeaking, refs, mounted, calls, sources,
                 session, userEvents, cancelled, sessStopped,
                 errorCount>>

\* getInvestmentPrediction rejected: the catch and finally of handleSubmit.
FetchReject ==
  /\ UNCHANGED outsidePredictor
  /\ isLoading
  /\ error' = ErrFetch
  /\ isLoading' = FALSE
  /\ NoStopHistory
  /\ UNCHANGED <<prediction, language, isSpeaking, refs, mounted, calls,
                 sources, session, userEvents, cancelled,
                 sessStopped, errorCount>>

\* The language <select>.
SetLanguage ==
  /\ UNCHANGED outsidePredictor
  /\ mounted
  /\ userEvents < MaxUserEvents
  /\ userEvents' = userEvents + 1
  /\ \E l \in Languages \ {language} : language' = l
  /\ NoStopHistory
  /\ UNCHANGED <<prediction, isLoading, error, isSpeaking, refs, mounted,
                 calls, sources, session, cancelled, sessStopped,
                 errorCount>>

\* The cleanup of the unmount effect.
Unmount ==
  /\ UNCHANGED outsidePredictor
  /\ mounted
  /\ userEvents < MaxUserEvents
  /\ userEvents' = userEvents + 1
  /\ mounted' = FALSE
  /\ Stop
  /\ UNCHANGED <<prediction, isLoading, error, language, session>>

SetPc(k, g, pc) == [calls EXCEPT ![k][g].pc = pc]

\* The source node that lines 79-86 create and start.
NewSource == [state |-> "playing", onended |-> TRUE, connected |-> TRUE]

\* Lines 76-87 for call <<k, g>>: decode, create the source, start it, keep
\* it in audioSourceRef.
StartSource(k, g) ==
  /\ Remember(SetPc(k, g, "started"), [sources EXCEPT ![k][g] = NewSource],
              cancelled, session)
  /\ audioSourceRef' = <<k, g>>

\* The message the catch block of playNextInQueue surfaces when the failure
\* is of the given kind: line 89 does not look at what was thrown.
catchMessage(kind) == ErrAudio

\* The catch block of playNextInQueue; pc records which await or call threw.
CatchBlock(k, g, pc) ==
  /\ Remember(SetPc(k, g, pc), sources, cancelled, session)
  /\ error' = catchMessage(pc)
  /\ isSpeaking' = FALSE
  /\ errorCount' = errorCount + 1
  /\ NoStopHistory
  /\ UNCHANGED <<prediction, isLoading, language, audioSourceRef,
                 audioQueueRef, isStoppedManuallyRef, mounted, session,
                 userEvents, sessStopped>>

\* context.state as line 72 reads it; a context created at line 68 starts
\* suspended or running.
ContextStates ==
  IF audioContextState = "none" THEN {"running", "suspended"}
  ELSE {audioContextState}

\* getTextToSpeechAudio resolved: playNextInQueue runs from line 67 to the
\* await of context.resume(), or to its end when the context is running.
SynthResolve(k, g) ==
  /\ UNCHANGED outsidePredictor
  /\ calls[k][g].pc = "synth"
  /\ audioContextState' = "running"
  /\ \E state \in ContextStates :
       IF state = "suspended"
       THEN /\ calls' = SetPc(k, g, "resume")
            /\ UNCHANGED <<sources, audioSourceRef, cancelled>>
       ELSE StartSource(k, g)
  /\ NoStopHistory
  /\ UNCHANGED <<prediction, isLoading, error, language, isSpeaking,
                 audioQueueRef, isStoppedManuallyRef, mounted, session,
                 userEvents, sessStopped, errorCount>>

\* getTextToSpeechAudio rejected.
SynthReject(k, g) ==
  /\ UNCHANGED outsidePredictor
  /\ calls[k][g].pc = "synth"
  /\ CatchBlock(k, g, "synthFailed")
  /\ UNCHANGED audioContextState

\* context.resume() resolved: lines 76-87.
ResumeDone(k, g) ==
  /\ UNCHANGED outsidePredictor
  /\ calls[k][g].pc = "resume"
  /\ StartSource(k, g)
  /\ NoStopHistory
  /\ UNCHANGED <<prediction, isLoading, error, language, isSpeaking,
                 audioContextState, audioQueueRef, isStoppedManuallyRef,
                 mounted, session, userEvents, sessStopped,
                 errorCount>>

\* decode, decodeAudioData or the output device threw: after the synthesis
\* resolved into a running context, or after resume().
AudioFail(k, g) ==
  /\ UNCHANGED outsidePredictor
  /\ \/ /\ calls[k][g].pc = "synth"
        /\ "running" \in ContextStates
        /\ audioContextState' = "running"
     \/ /\ calls[k][g].pc = "resume"
        /\ UNCHANGED audioContextState
  /\ CatchBlock(k, g, "audioFailed")

\* The `ended` event of source <<k, g>> with its onended callback attached:
\* the buffer played to its end, or the node was stopped with the callback
\* still attached.
SourceEnded(k, g) ==
  /\ UNCHANGED outsidePredictor
  /\ sources[k][g].onended
  /\ \/ sources[k][g].state = "playing" /\ audioContextState = "running"
     \/ sources[k][g].state = "stopped"
  /\ audioSourceRef' = NoSource
  /\ PlayNext(calls[k][g].lang, session, audioQueueRef,
              isStoppedManuallyRef, isSpeaking,
              [sources EXCEPT ![k][g].state = "ended"])
  /\ NoStopHistory
  /\ UNCHANGED <<prediction, isLoading, error, language, audioContextState,
                 mounted, session, userEvents, sessStopped,
                 errorCount>>

Next ==
  \/ HandleSpeak
  \/ HandleSubmit
  \/ FetchResolve
  \/ FetchReject
  \/ SetLanguage
  \/ Unmount
  \/ \E k \in Sessions, g \in Segments : SynthResolve(k, g)
  \/ \E k \in Sessions, g \in Segments : SynthReject(k, g)
  \/ \E k \in Sessions, g \in Segments : ResumeDone(k, g)
  \/ \E k \in Sessions, g \in Segments : AudioFail(k, g)
  \/ \E k \in Sessions, g \in Segments : SourceEnded(k, g)

Spec == Init /\ [][Next]_vars

\* A pending promise settles or a started source fires `ended`: the event
\* loop runs the continuation or the callback.
Settle ==
  \E k \in Sessions, g \in Segments :
    \/ SynthResolve(k, g)
    \/ SynthReject(k, g)
    \/ ResumeDone(k, g)
    \/ AudioFail(k, g)
    \/ SourceEnded(k, g)

\* Submits of an empty portfolio that came before the first accepted one.
EmptySubmits == 1

\* InvestmentPredictor after EmptySubmits submits of an empty portfolio, the
\* submit of a portfolio and the arrival of its prediction: handleSubmit has
\* run stopPlayback once.
PredictionLoaded ==
  /\ prediction \in 1..MaxSegments
  /\ isLoading = FALSE
  /\ error = NoError
  /\ language = "English"
  /\ isSpeaking = FALSE
  /\ audioContextState = "none"
  /\ audioSourceRef = NoSource
  /\ audioQueueRef = <<>>
  /\ isStoppedManuallyRef = TRUE
  /\ mounted = TRUE
  /\ calls = [k \in Sessions |-> [g \in Segments |-> NoCall]]
  /\ sources = [k \in Sessions |-> [g \in Segments |-> NoNode]]
  /\ session = 0
  /\ userEvents = EmptySubmits + 1
  /\ cancelled = {}
  /\ sessStopped = TRUE
  /\ errorCount = 0
  /\ stopRun = 0
  /\ lastHeld = NoNode

\* The behaviours from a loaded prediction on in which every synthesis call
\* and every resume settles, and every started source whose context is
\* running fires `ended`.
InitLive ==
  /\ PredictionLoaded
  /\ TtsUnused
  /\ AdvisorInit
  /\ ChatInit

SpecLive == InitLive /\ [][Next]_vars /\ WF_vars(Settle)

TtsNext == TtsSettle \/ TtsRequest

\* One call of getTextToSpeechAudio with any request and any remote outcome.
InitTts ==
  /\ PredictorInit
  /\ TtsInit
  /\ AdvisorInit
  /\ ChatInit

SpecTts == InitTts /\ [][TtsNext]_vars

SpecChat == Init /\ [][ChatNext]_vars

SpecAdvisor == Init /\ [][AdvisorNext]_vars

TypeOK ==
  /\ prediction \in 0..MaxSegments
  /\ isLoading \in BOOLEAN
  /\ isSpeaking \in BOOLEAN
  /\ language \in Languages
  /\ audioContextState \in {"none", "running", "suspended"}
  /\ audioSourceRef \in {NoSource} \cup (Sessions \X Segments)
  /\ audioSourceRef # NoSource =>
       sources[audioSourceRef[1]][audioSourceRef[2]].state = "playing"
  /\ isStoppedManuallyRef \in BOOLEAN
  /\ session \in 0..MaxUserEvents
  /\ stopRun \in 0..2
  /\ \A k \in Sessions, g \in Segments : calls[k][g].times <= 1

\* The segments of session k for which synthesis has been requested.
Requested(cs, k) == {g \in Segments : cs[k][g].pc # "none"}

\* Session k has a source for segment g whose playback completed.
Played(k, g) == sources[k][g].state = "ended"

\* The current session was neither stopped nor hit by a failure.
Uninterrupted == session >= 1 /\ ~sessStopped /\ errorCount = 0

\* C1: a synthesis call that was in flight when stopPlayback ran is
\* discarded when it resolves: no audio source is ever created or started
\* for it.
C1_StoppedSynthesisIsDiscarded ==
  \A kg \in cancelled : sources[kg[1]][kg[2]].state = "none"

\* C2: at most one audio source is started and not yet ended or stopped.
C2_AtMostOneSourcePlaying ==
  Cardinality({kg \in Sessions \X Segments :
                 sources[kg[1]][kg[2]].state = "playing"}) <= 1

\* C3: at most one call of getTextToSpeechAudio is in flight.
C3_AtMostOneSynthesisInFlight ==
  Cardinality({kg \in Sessions \X Segments :
                 calls[kg[1]][kg[2]].pc = "synth"}) <= 1

\* C4: the synthesis calls of a session are its segments in list order, from
\* the head, with no reordering, skipping or repetition (at every moment of
\* the session the requested segments are an initial part of the list, each
\* requested once); when a session that was not stopped and had no failure
\* finishes, every one of its n segments has been requested.
C4_SynthesisInListOrder ==
  session >= 1 =>
    /\ Requested(calls, session) =
         1..Cardinality(Requested(calls, session))
    /\ \A g \in Requested(calls, session) : calls[session][g].times = 1
    /\ (Uninterrupted /\ ~isSpeaking) =>
         Requested(calls, session) = 1..prediction

C4_Witness ==
  /\ Uninterrupted
  /\ ~isSpeaking
  /\ prediction = MaxSegments
  /\ \A g \in Segments : calls[session][g].times = 1 /\ Played(session, g)

\* C5: the synthesis request for segment N+1 of a session is never issued
\* before the playback-completion event of segment N's source.
C5_NoSynthesisBeforePreviousEnded ==
  session >= 1 =>
    \A g \in Segments :
      (g > 1 /\ calls[session][g].pc # "none") => Played(session, g - 1)

\* The segments of session k that a step requests synthesis for.
NewSegs(k) == {g \in Segments : calls'[k][g].times > calls[k][g].times}

\* C6: once stopPlayback has halted the source of segment g of a session
\* (it was playing and held), no later segment of that session is ever
\* submitted to the synthesis service.
C6_StopWhilePlayingEndsSession ==
  [][\A k \in Sessions, g \in Segments :
       sources[k][g].state = "stopped" =>
         \A h \in NewSegs(k) : h <= g]_vars

C6_Witness ==
  \E g \in Segments :
    /\ session >= 1
    /\ sources[session][g].state = "stopped"
    /\ g < prediction
    /\ Requested(calls, session) = 1..g
    /\ stopRun = 0

\* C7: in a session that is neither stopped nor failed, isSpeaking drops to
\* false only after the playback of the last segment has completed, with no
\* synthesis call of the session left in flight.
C7_SpeakingEndsAfterLastPlayback ==
  (Uninterrupted /\ ~isSpeaking) =>
    \A g \in 1..prediction : Played(session, g)

\* C8: once synthesis or decoding has failed for a segment of the session,
\* no further segment of that session is submitted, one error has been
\* surfaced and isSpeaking is false.
C8_FailureEndsSession ==
  [][(session >= 1
      /\ (\E g \in Segments : calls[session][g].pc \in Failed)
      /\ session' = session)
     => (NewSegs(session) = {} /\ errorCount' = 1 /\ ~isSpeaking')]_vars

\* C9: a stopPlayback call that immediately follows another one finds no
\* source to halt and changes neither the queue, the manual-stop flag, the
\* source handle, isSpeaking nor any source node.
C9_StopTwiceIsStopOnce ==
  [][(stopRun = 1 /\ stopRun' = 2) =>
       /\ audioSourceRef = NoSource
       /\ audioQueueRef' = audioQueueRef
       /\ isStoppedManuallyRef' = isStoppedManuallyRef
       /\ audioSourceRef' = audioSourceRef
       /\ isSpeaking' = isSpeaking
       /\ sources' = sources]_vars

C9_Witness == stopRun = 2 /\ lastHeld # NoNode

\* C10: right after stopPlayback returns the manual-stop flag is set, the
\* queue is empty, no source handle is held, isSpeaking is false, and the
\* source that was held has its callback detached and is stopped and
\* disconnected.
C10_StopPostcondition ==
  stopRun >= 1 =>
    /\ isStoppedManuallyRef
    /\ audioQueueRef = <<>>
    /\ audioSourceRef = NoSource
    /\ ~isSpeaking
    /\ lastHeld # NoNode =>
         /\ ~lastHeld.onended
         /\ lastHeld.state = "stopped"
         /\ ~lastHeld.connected

C10_Witness ==
  /\ stopRun = 1
  /\ lastHeld # NoNode
  /\ audioContextState = "suspended"

\* C11: once the view is unmounted, no audio source of the component is
\* playing in a running context: the one that was playing has been halted
\* and no source is started afterwards.
C11_NoPlaybackAfterUnmount ==
  ~mounted =>
    ~(/\ audioContextState = "running"
      /\ \E k \in Sessions, g \in Segments : sources[k][g].state = "playing")

\* C12: a speak request that follows a session ended by a failure starts a
\* fresh session: isSpeaking is true, the manual-stop flag is clear, the
\* first segment of the new list is the one call made, the queue holds the
\* rest of the new list, and no call or source of an earlier session is
\* left that could still play something else.
C12_ReusableAfterFailure ==
  [][(errorCount >= 1 /\ ~isSpeaking /\ session' = session + 1) =>
       /\ isSpeaking'
       /\ ~isStoppedManuallyRef'
       /\ error' = NoError
       /\ Requested(calls', session') = {1}
       /\ calls'[session'][1].pc = "synth"
       /\ audioQueueRef' = Tail(textChunks(prediction))
       /\ \A k \in Sessions, g \in Segments :
            k < session' => ~Live(calls'[k][g], sources'[k][g])]_vars

\* C13: the message surfaced when a synthesis call fails is never the
\* message that a decode or output failure surfaces.
C13_MessagesDistinguishFailureKinds ==
  [][\A k \in Sessions, g \in Segments :
       (calls[k][g].pc = "synth" /\ calls'[k][g].pc = "synthFailed") =>
         error' # catchMessage("audioFailed")]_vars

\* C14: getTextToSpeechAudio fulfils only when the remote call resolved with
\* a non-empty payload, and then with that payload; when the remote call
\* rejects or the response carries no payload it rejects, in both cases with
\* the one synthesis error; it never fulfils with an empty value.
C14_SynthesisPayloadOrError ==
  LET outcome == ttsCall.outcome
      hasPayload == /\ ~outcome.rejects
                    /\ outcome.chain = ChainLen
                    /\ outcome.data # <<>>
  IN ttsResult # NotSettled =>
       /\ hasPayload => ttsResult = Returned(outcome.data)
       /\ ~hasPayload => ttsResult = Thrown(ErrSynthesis)
       /\ ttsResult.status = "fulfilled" => ttsResult.value # <<>>

C14_Witness ==
  /\ ttsResult = Thrown(ErrSynthesis)
  /\ ~ttsCall.outcome.rejects
  /\ ttsCall.outcome.chain = ChainLen
  /\ ttsCall.outcome.data = <<>>

\* C15: handleSpeak with a prediction: while isSpeaking is true it only
\* stops (no session is started, no synthesis is requested, the queue is
\* not given a segment list); while isSpeaking is false it starts a session
\* whose queue is the new segment list, clears the manual-stop flag, sets
\* isSpeaking and requests the synthesis of the first segment, which leaves
\* the rest of the list in the queue.
C15_HandleSpeakBranches ==
  [][HandleSpeak =>
       IF isSpeaking
       THEN /\ session' = session
            /\ \A k \in Sessions : NewSegs(k) = {}
            /\ audioQueueRef' = <<>>
            /\ isStoppedManuallyRef'
            /\ ~isSpeaking'
       ELSE /\ session' = session + 1
            /\ audioQueueRef' = Tail(textChunks(prediction))
            /\ ~isStoppedManuallyRef'
            /\ isSpeaking'
            /\ NewSegs(session') = {1}
            /\ calls'[session'][1].pc = "synth"]_vars

C15_Witness ==
  /\ session >= 2
  /\ sessStopped = FALSE
  /\ isSpeaking
  /\ prediction = MaxSegments
  /\ Requested(calls, session) = {1}
  /\ calls[session][1].pc = "synth"
  /\ audioQueueRef = Tail(textChunks(prediction))

\* C16: every synthesis call made for a segment of the current session uses
\* the language of the session's first call, which is the language selected
\* when handleSpeak started the session.
C16_SessionKeepsItsLanguage ==
  session >= 1 =>
    \A g \in Requested(calls, session) :
      calls[session][g].lang = calls[session][1].lang

\* C17: whenever a synthesis call is in flight or an audio source is
\* playing, isSpeaking is true.
C17_BusyImpliesSpeaking ==
  (\E k \in Sessions, g \in Segments :
     calls[k][g].pc = "synth" \/ sources[k][g].state = "playing")
    => isSpeaking

\* Something is pending that will run playNextInQueue or its continuation.
Busy ==
  \E k \in Sessions, g \in Segments :
    calls[k][g].pc \in Awaiting \/ sources[k][g].state = "playing"

\* C18: isSpeaking is never true with no call pending and no source playing,
\* and whenever isSpeaking is true it eventually becomes false, given that
\* pending calls settle and started sources fire their completion event.
C18_SessionReturnsToIdle ==
  /\ [](isSpeaking => Busy)
  /\ (isSpeaking ~> ~isSpeaking)

C18_Witness ==
  /\ session >= 2
  /\ ~isSpeaking
  /\ ~Busy
  /\ Uninterrupted
  /\ prediction = MaxSegments
  /\ \A g \in Segments : Played(session, g)

\* C19: in FinanceAdvisor at most one source is playing, and while a source
\* is playing isSpeaking is true and audioSourceRef holds that source.
C19_AdvisorOneHeldSource ==
  /\ Cardinality({i \in FaCalls : faNodes[i] = "playing"}) <= 1
  /\ \A i \in FaCalls :
       faNodes[i] = "playing" => faIsSpeaking /\ faAudioSourceRef = i

\* C20: in ChatBot handleSend changes nothing and sends nothing when the
\* input is blank or a request is loading, and otherwise appends the input
\* as one user message and sends one request; a request that settles appends
\* one bot message (the reply, or the apology on failure) and clears
\* isLoading.  So at most one request is in flight, and after the greeting
\* the messages alternate user, bot, user, bot.
C20_ChatAlternates ==
  /\ [](LET sent == handleSend(chInput, chIsLoading, chMessages)
        IN /\ (trim(chInput) = <<>> \/ chIsLoading) =>
                /\ ~sent.request
                /\ sent.messages = chMessages
                /\ sent.input = chInput
                /\ sent.isLoading = chIsLoading
           /\ ~(trim(chInput) = <<>> \/ chIsLoading) =>
                /\ sent.request
                /\ Len(sent.messages) = Len(chMessages) + 1
                /\ SubSeq(sent.messages, 1, Len(chMessages)) = chMessages
                /\ sent.messages[Len(sent.messages)].sender = "user"
                /\ sent.messages[Len(sent.messages)].text = chInput
                /\ sent.isLoading
           /\ chInFlight <= 1
           /\ chIsLoading <=> chInFlight = 1
           /\ \A i \in 1..Len(chMessages) :
                chMessages[i].sender = IF i % 2 = 1 THEN "bot" ELSE "user"
           /\ Len(chMessages) % 2 = (IF chIsLoading THEN 0 ELSE 1))
  /\ [][chInFlight' < chInFlight =>
          /\ Len(chMessages') = Len(chMessages) + 1
          /\ SubSeq(chMessages', 1, Len(chMessages)) = chMessages
          /\ chMessages'[Len(chMessages')].sender = "bot"
          /\ chMessages'[Len(chMessages')].text \in Replies \cup {ChatApology}
          /\ ~chIsLoading']_vars

C20_Witness ==
  /\ Len(chMessages) = 5
  /\ chMessages[3].text = ChatApology
  /\ chMessages[5].text \in Replies
  /\ trim(chMessages[4].text) # chMessages[4].text
====
